---------------------------- MODULE Spec2Model ----------------------------
(***************************************************************************)
(* Detective Quest (trabalhoDetectiveQuest.c): the mansion's room tree,    *)
(* the BST of collected clues (ClueLedger), the chained hash table from    *)
(* clue text to suspect (SuspectIndex), the interactive exploration loop,  *)
(* the final verdict and the teardown of main.                             *)
(*                                                                         *)
(* C strings are sequences of bytes (unsigned char values 1..255, the      *)
(* terminating NUL left implicit); the source file is UTF-8, so the        *)
(* accented letters of its literals are two bytes each.  Pointers to heap  *)
(* nodes are addresses 1, 2, ... into a sequence of nodes, NULL is 0.      *)
(***************************************************************************)
EXTENDS Integers, Sequences, FiniteSets, TLC

(***************************************************************************)
(* Program constants.                                                      *)
(***************************************************************************)
HASH_SIZE == 101

\* the null pointer of Room* and ClueNode*
NULL == 0

\* the null pointer of char* (no byte string has a negative byte)
NULLSTR == <<-1>>

\* unsigned long is 64 bits wide (LP64): four limbs of 16 bits
LimbBase == 65536

(***************************************************************************)
(* String literals of the source.                                          *)
(***************************************************************************)
\* "Entrada"
Entrada == <<69, 110, 116, 114, 97, 100, 97>>
\* "Salão"
Salao == <<83, 97, 108, 195, 163, 111>>
\* "Cozinha"
Cozinha == <<67, 111, 122, 105, 110, 104, 97>>
\* "Biblioteca"
Biblioteca == <<66, 105, 98, 108, 105, 111, 116, 101, 99, 97>>
\* "Escritório"
Escritorio == <<69, 115, 99, 114, 105, 116, 195, 179, 114, 105, 111>>
\* "Quarto"
Quarto == <<81, 117, 97, 114, 116, 111>>
\* "Varanda"
Varanda == <<86, 97, 114, 97, 110, 100, 97>>
\* "Sótão"
Sotao == <<83, 195, 179, 116, 195, 163, 111>>
\* "Porão"
Porao == <<80, 111, 114, 195, 163, 111>>
\* "Pegadas lamacentas"
PegadasLamacentas == <<80, 101, 103, 97, 100, 97, 115, 32, 108, 97, 109, 97, 99, 101, 110, 116, 97, 115>>
\* "Vidro quebrado"
VidroQuebrado == <<86, 105, 100, 114, 111, 32, 113, 117, 101, 98, 114, 97, 100, 111>>
\* "Faca com impressões"
FacaComImpressoes == <<70, 97, 99, 97, 32, 99, 111, 109, 32, 105, 109, 112, 114, 101, 115, 115, 195, 181, 101, 115>>
\* "Livro deslocado"
LivroDeslocado == <<76, 105, 118, 114, 111, 32, 100, 101, 115, 108, 111, 99, 97, 100, 111>>
\* "Carta rasgada"
CartaRasgada == <<67, 97, 114, 116, 97, 32, 114, 97, 115, 103, 97, 100, 97>>
\* "Frascos vazios"
FrascosVazios == <<70, 114, 97, 115, 99, 111, 115, 32, 118, 97, 122, 105, 111, 115>>
\* "Fibra vermelha"
FibraVermelha == <<70, 105, 98, 114, 97, 32, 118, 101, 114, 109, 101, 108, 104, 97>>
\* "Marcas de arraste"
MarcasDeArraste == <<77, 97, 114, 99, 97, 115, 32, 100, 101, 32, 97, 114, 114, 97, 115, 116, 101>>
\* "Pegada pequena"
PegadaPequena == <<80, 101, 103, 97, 100, 97, 32, 112, 101, 113, 117, 101, 110, 97>>
\* "Sr. Verde"
SrVerde == <<83, 114, 46, 32, 86, 101, 114, 100, 101>>
\* "Sra. Rosa"
SraRosa == <<83, 114, 97, 46, 32, 82, 111, 115, 97>>
\* "Sr. Preto"
SrPreto == <<83, 114, 46, 32, 80, 114, 101, 116, 111>>
\* "Dr. Azul"
DrAzul == <<68, 114, 46, 32, 65, 122, 117, 108>>

(***************************************************************************)
(* <string.h> and <ctype.h> as the program uses them.                      *)
(***************************************************************************)
\* the byte at position i of a C string; past the end sits the NUL
CharAt(s, i) == IF i <= Len(s) THEN s[i] ELSE 0

\* the first position at which two C strings differ, the NUL included;
\* 0 when they are equal
FirstDiff(a, b) ==
    LET n == (IF Len(a) < Len(b) THEN Len(a) ELSE Len(b)) + 1
        diffs == {i \in 1..n : CharAt(a, i) # CharAt(b, i)}
    IN  IF diffs = {} THEN 0
        ELSE CHOOSE i \in diffs : \A j \in diffs : i <= j

\* Faulty variant of strcmp: the bytes are compared as signed char
strcmp_signed(a, b) ==
    LET k == FirstDiff(a, b)
        sa == IF CharAt(a, k) > 127 THEN CharAt(a, k) - 256 ELSE CharAt(a, k)
        sb == IF CharAt(b, k) > 127 THEN CharAt(b, k) - 256 ELSE CharAt(b, k)
    IN  IF k = 0 THEN 0 ELSE sa - sb

\* strcmp: the difference of the first two differing bytes, compared as
\* unsigned char; 0 when the strings are equal
strcmp(a, b) ==
    LET k == FirstDiff(a, b)
    IN  IF k = 0 THEN 0 ELSE CharAt(a, k) - CharAt(b, k)

strlen(s) == Len(s)

\* strdup_safe: NULL for NULL, otherwise a fresh byte-for-byte copy
strdup_safe(s) ==
    IF s = NULLSTR THEN NULLSTR ELSE SubSeq(s, 1, strlen(s))

\* trim_newline: drops one trailing '\n' (10), if there is one
trim_newline(s) ==
    IF strlen(s) > 0 /\ s[strlen(s)] = 10 THEN SubSeq(s, 1, strlen(s) - 1)
    ELSE s

(***************************************************************************)
(* hash_func: djb2 over unsigned long, reduced modulo HASH_SIZE.  The      *)
(* arithmetic wraps at the width of unsigned long, which the longer clue   *)
(* texts exceed, so h is kept as ULongLimbs limbs of 16 bits, the least    *)
(* significant first.                                                      *)
(***************************************************************************)
ULongOf(n) == <<n % LimbBase, n \div LimbBase, 0, 0>>

\* ((h << 5) + h) + c modulo 2^64: h << 5 is 32 h, carried limb by limb,
\* and the carry out of the last limb is lost
hash_step(h, c) ==
    LET t1 == h[1] * 32 + h[1] + c
        t2 == h[2] * 32 + h[2] + (t1 \div LimbBase)
        t3 == h[3] * 32 + h[3] + (t2 \div LimbBase)
        t4 == h[4] * 32 + h[4] + (t3 \div LimbBase)
    IN  <<t1 % LimbBase, t2 % LimbBase, t3 % LimbBase, t4 % LimbBase>>

\* h % m for m below 2^15
ULongMod(h, m) ==
    LET r4 == h[4] % m
        r3 == (r4 * LimbBase + h[3]) % m
        r2 == (r3 * LimbBase + h[2]) % m
    IN  (r2 * LimbBase + h[1]) % m

\* the while loop of hash_func over the bytes lo..hi of s, in order, from
\* the value h (evaluated by halves: the steps are those of the loop)
hash_loop[s \in Seq(Nat), lo \in Nat, hi \in Nat, h \in Seq(Nat)] ==
    IF lo > hi THEN h
    ELSE IF lo = hi THEN hash_step(h, s[lo])
    ELSE LET mid == (lo + hi) \div 2
         IN  hash_loop[s, mid + 1, hi, hash_loop[s, lo, mid, h]]

hash_func(s) ==
    ULongMod(hash_loop[s, 1, strlen(s), ULongOf(5381)], HASH_SIZE)

(***************************************************************************)
(* Room tree.  A Room is [name, left, right]; the heap of rooms is the     *)
(* sequence of the rooms in the order criarSala allocated them.            *)
(***************************************************************************)
criarSala(name) == [name |-> strdup_safe(name), left |-> NULL, right |-> NULL]

\* Faulty variant of construirMansao: one link more, rSotao->left = rPorao
construirMansao_deeper ==
    LET rEntrada == 1  rSala == 2  rCozinha == 3  rBiblioteca == 4
        rEscritorio == 5  rQuarto == 6  rVaranda == 7  rSotao == 8  rPorao == 9
        fresh == << criarSala(Entrada), criarSala(Salao), criarSala(Cozinha),
                    criarSala(Biblioteca), criarSala(Escritorio),
                    criarSala(Quarto), criarSala(Varanda), criarSala(Sotao),
                    criarSala(Porao) >>
    IN  [ heap |-> [fresh EXCEPT ![rEntrada].left = rSala,
                                 ![rEntrada].right = rCozinha,
                                 ![rSala].left = rBiblioteca,
                                 ![rSala].right = rEscritorio,
                                 ![rCozinha].left = rQuarto,
                                 ![rCozinha].right = rVaranda,
                                 ![rBiblioteca].left = rSotao,
                                 ![rEscritorio].right = rPorao,
                                 ![rSotao].left = rPorao],
          root |-> rEntrada ]

\* construirMansao: the nine rooms and their links; the root is rEntrada
construirMansao ==
    LET rEntrada == 1  rSala == 2  rCozinha == 3  rBiblioteca == 4
        rEscritorio == 5  rQuarto == 6  rVaranda == 7  rSotao == 8  rPorao == 9
        fresh == << criarSala(Entrada), criarSala(Salao), criarSala(Cozinha),
                    criarSala(Biblioteca), criarSala(Escritorio),
                    criarSala(Quarto), criarSala(Varanda), criarSala(Sotao),
                    criarSala(Porao) >>
    IN  [ heap |-> [fresh EXCEPT ![rEntrada].left = rSala,
                                 ![rEntrada].right = rCozinha,
                                 ![rSala].left = rBiblioteca,
                                 ![rSala].right = rEscritorio,
                                 ![rCozinha].left = rQuarto,
                                 ![rCozinha].right = rVaranda,
                                 ![rBiblioteca].left = rSotao,
                                 ![rEscritorio].right = rPorao],
          root |-> rEntrada ]

\* the chain of strcmp tests of explorarSalas that names a room's clue
getClueForRoom(name) ==
    IF strcmp(name, Entrada) = 0 THEN PegadasLamacentas
    ELSE IF strcmp(name, Salao) = 0 THEN VidroQuebrado
    ELSE IF strcmp(name, Cozinha) = 0 THEN FacaComImpressoes
    ELSE IF strcmp(name, Biblioteca) = 0 THEN LivroDeslocado
    ELSE IF strcmp(name, Escritorio) = 0 THEN CartaRasgada
    ELSE IF strcmp(name, Quarto) = 0 THEN FrascosVazios
    ELSE IF strcmp(name, Varanda) = 0 THEN FibraVermelha
    ELSE IF strcmp(name, Sotao) = 0 THEN MarcasDeArraste
    ELSE IF strcmp(name, Porao) = 0 THEN PegadaPequena
    ELSE NULLSTR

\* freeRooms: the addresses freed, in the order of the calls to free
RECURSIVE freeRooms(_, _)
freeRooms(heap, r) ==
    IF r = NULL THEN <<>>
    ELSE freeRooms(heap, heap[r].left) \o freeRooms(heap, heap[r].right)
         \o <<r>>

(***************************************************************************)
(* ClueLedger: the BST of collected clues.  A ClueNode is                  *)
(* [clue, left, right]; the heap of nodes is the sequence of the nodes in  *)
(* the order inserirPista allocated them.                                  *)
(***************************************************************************)
\* Faulty variant of inserirPista: the test for an equal text is missing,
\* so an equal text goes to the right subtree
RECURSIVE inserirPista_nodedup(_, _, _)
inserirPista_nodedup(heap, root, clue) ==
    IF clue = NULLSTR THEN [heap |-> heap, root |-> root]
    ELSE IF root = NULL
    THEN [ heap |-> Append(heap, [clue |-> strdup_safe(clue),
                                  left |-> NULL, right |-> NULL]),
           root |-> Len(heap) + 1 ]
    ELSE LET cmp == strcmp(clue, heap[root].clue)
         IN  IF cmp < 0
             THEN LET sub == inserirPista_nodedup(heap, heap[root].left, clue)
                  IN  [ heap |-> [sub.heap EXCEPT ![root].left = sub.root],
                        root |-> root ]
             ELSE LET sub == inserirPista_nodedup(heap, heap[root].right, clue)
                  IN  [ heap |-> [sub.heap EXCEPT ![root].right = sub.root],
                        root |-> root ]

\* inserirPista: [heap, root] after the call
RECURSIVE inserirPista(_, _, _)
inserirPista(heap, root, clue) ==
    IF clue = NULLSTR THEN [heap |-> heap, root |-> root]
    ELSE IF root = NULL
    THEN [ heap |-> Append(heap, [clue |-> strdup_safe(clue),
                                  left |-> NULL, right |-> NULL]),
           root |-> Len(heap) + 1 ]
    ELSE LET cmp == strcmp(clue, heap[root].clue)
         IN  IF cmp = 0 THEN [heap |-> heap, root |-> root]
             ELSE IF cmp < 0
             THEN LET sub == inserirPista(heap, heap[root].left, clue)
                  IN  [ heap |-> [sub.heap EXCEPT ![root].left = sub.root],
                        root |-> root ]
             ELSE LET sub == inserirPista(heap, heap[root].right, clue)
                  IN  [ heap |-> [sub.heap EXCEPT ![root].right = sub.root],
                        root |-> root ]

\* Faulty variant of adicionarPista: the clue is announced and not inserted
adicionarPista_printonly(heap, root, clue) ==
    IF clue = NULLSTR THEN [heap |-> heap, root |-> root, printed |-> FALSE]
    ELSE [heap |-> heap, root |-> root, printed |-> TRUE]

\* adicionarPista: [heap, root, printed]; printed tells whether the two
\* lines "Pista encontrada" / "Pista adicionada ao caderno" were printed
adicionarPista(heap, root, clue) ==
    IF clue = NULLSTR THEN [heap |-> heap, root |-> root, printed |-> FALSE]
    ELSE LET r == inserirPista(heap, root, clue)
         IN  [heap |-> r.heap, root |-> r.root, printed |-> TRUE]

\* listarPistas: the clue texts printed, in order
RECURSIVE listarPistas(_, _)
listarPistas(heap, root) ==
    IF root = NULL THEN <<>>
    ELSE listarPistas(heap, heap[root].left) \o <<heap[root].clue>>
         \o listarPistas(heap, heap[root].right)

\* Faulty variant of freeClues: the right subtree is not freed
RECURSIVE freeClues_leak(_, _)
freeClues_leak(heap, n) ==
    IF n = NULL THEN <<>>
    ELSE freeClues_leak(heap, heap[n].left) \o <<n>>

\* freeClues: the addresses freed, in the order of the calls to free
RECURSIVE freeClues(_, _)
freeClues(heap, n) ==
    IF n = NULL THEN <<>>
    ELSE freeClues(heap, heap[n].left) \o freeClues(heap, heap[n].right)
         \o <<n>>

(***************************************************************************)
(* SuspectIndex: HASH_SIZE buckets, each a chain of [key, suspect]         *)
(* entries, the head of the chain first.                                   *)
(***************************************************************************)
Buckets == 0..(HASH_SIZE - 1)

\* the table with every bucket NULL (the loop that opens popularTabelaHash)
EmptyTable == [i \in Buckets |-> <<>>]

\* the while loop of inserirNaHash: the position in the chain of the first
\* entry, from position i on, whose key equals pista; 0 when there is none
RECURSIVE inserirNaHash_scan(_, _, _)
inserirNaHash_scan(chain, pista, i) ==
    IF i > Len(chain) THEN 0
    ELSE IF strcmp(chain[i].key, pista) = 0 THEN i
    ELSE inserirNaHash_scan(chain, pista, i + 1)

\* Faulty variant of inserirNaHash: the chain is not searched, every call
\* adds an entry at the head
inserirNaHash_noreplace(tab, pista, suspeito) ==
    IF pista = NULLSTR \/ suspeito = NULLSTR THEN tab
    ELSE [tab EXCEPT ![hash_func(pista)] =
             << [key |-> strdup_safe(pista),
                 suspect |-> strdup_safe(suspeito)] >> \o @]

\* inserirNaHash: the table after the call
inserirNaHash(tab, pista, suspeito) ==
    IF pista = NULLSTR \/ suspeito = NULLSTR THEN tab
    ELSE LET idx == hash_func(pista)
             cur == inserirNaHash_scan(tab[idx], pista, 1)
         IN  IF cur # 0
             THEN [tab EXCEPT ![idx][cur].suspect = strdup_safe(suspeito)]
             ELSE [tab EXCEPT ![idx] =
                      << [key |-> strdup_safe(pista),
                          suspect |-> strdup_safe(suspeito)] >> \o @]

\* the while loop of encontrarSuspeito
RECURSIVE encontrarSuspeito_scan(_, _, _)
encontrarSuspeito_scan(chain, pista, i) ==
    IF i > Len(chain) THEN NULLSTR
    ELSE IF strcmp(chain[i].key, pista) = 0 THEN chain[i].suspect
    ELSE encontrarSuspeito_scan(chain, pista, i + 1)

\* Faulty variant of encontrarSuspeito: the head of the bucket is taken
\* for the match, its key not compared
encontrarSuspeito_nocmp(tab, pista) ==
    IF pista = NULLSTR THEN NULLSTR
    ELSE IF tab[hash_func(pista)] = <<>> THEN NULLSTR
    ELSE tab[hash_func(pista)][1].suspect

\* encontrarSuspeito: the suspect stored for pista, NULL when there is none
encontrarSuspeito(tab, pista) ==
    IF pista = NULLSTR THEN NULLSTR
    ELSE encontrarSuspeito_scan(tab[hash_func(pista)], pista, 1)

\* the nine calls of popularTabelaHash, in order
Associacoes ==
    << <<PegadasLamacentas, SrVerde>>, <<VidroQuebrado, SraRosa>>,
       <<FacaComImpressoes, SrPreto>>, <<LivroDeslocado, SraRosa>>,
       <<CartaRasgada, SrPreto>>, <<FrascosVazios, DrAzul>>,
       <<FibraVermelha, SraRosa>>, <<MarcasDeArraste, SrVerde>>,
       <<PegadaPequena, SraRosa>> >>

\* the tables: every bucket a chain of [key, suspect] entries
Tables == [Buckets -> Seq([key : Seq(Nat), suspect : Seq(Nat)])]

\* inserirNaHash called for pairs[lo], ..., pairs[hi] in turn, from the
\* table tab (evaluated by halves: the calls are made in that order)
InserirTodas[tab \in Tables, pairs \in Seq(Seq(Seq(Int))), lo \in Nat, hi \in Nat] ==
    IF lo > hi THEN tab
    ELSE IF lo = hi THEN inserirNaHash(tab, pairs[lo][1], pairs[lo][2])
    ELSE LET mid == (lo + hi) \div 2
         IN  InserirTodas[InserirTodas[tab, pairs, lo, mid], pairs, mid + 1,
                          hi]

\* Faulty variant of popularTabelaHash: the first inserirNaHash is missing
popularTabelaHash_short ==
    InserirTodas[EmptyTable, Associacoes, 2, Len(Associacoes)]

popularTabelaHash ==
    InserirTodas[EmptyTable, Associacoes, 1, Len(Associacoes)]

\* the inner while loop of freeHash: the keys of the entries of one chain,
\* freed from the head on
RECURSIVE freeHash_chain(_, _)
freeHash_chain(chain, j) ==
    IF j > Len(chain) THEN <<>>
    ELSE <<chain[j].key>> \o freeHash_chain(chain, j + 1)

\* the for loop of freeHash over the buckets lo..hi, in ascending order
\* (evaluated by halves: the order of the frees is that of the loop)
RECURSIVE freeHash_buckets(_, _, _)
freeHash_buckets(tab, lo, hi) ==
    IF lo > hi THEN <<>>
    ELSE IF lo = hi THEN freeHash_chain(tab[lo], 1)
    ELSE LET mid == (lo + hi) \div 2
         IN  freeHash_buckets(tab, lo, mid)
             \o freeHash_buckets(tab, mid + 1, hi)

\* freeHash: the keys of the entries freed, in the order of the frees
freeHash(tab) == freeHash_buckets(tab, 0, HASH_SIZE - 1)

\* Faulty variant of count_clues_for_suspect: the right subtree is not
\* visited
RECURSIVE count_clues_left_only(_, _, _, _)
count_clues_left_only(heap, root, tab, suspect) ==
    IF root = NULL THEN [cnt |-> 0, looked |-> <<>>]
    ELSE LET l == count_clues_left_only(heap, heap[root].left, tab, suspect)
             s == encontrarSuspeito(tab, heap[root].clue)
             hit == IF s # NULLSTR /\ strcmp(s, suspect) = 0 THEN 1 ELSE 0
         IN  [ cnt |-> l.cnt + hit,
               looked |-> l.looked \o <<heap[root].clue>> ]

\* count_clues_for_suspect: [cnt, looked]; looked lists the clue texts
\* handed to encontrarSuspeito, in order
RECURSIVE count_clues_for_suspect(_, _, _, _)
count_clues_for_suspect(heap, root, tab, suspect) ==
    IF root = NULL THEN [cnt |-> 0, looked |-> <<>>]
    ELSE LET l == count_clues_for_suspect(heap, heap[root].left, tab, suspect)
             s == encontrarSuspeito(tab, heap[root].clue)
             hit == IF s # NULLSTR /\ strcmp(s, suspect) = 0 THEN 1 ELSE 0
             r == count_clues_for_suspect(heap, heap[root].right, tab,
                                          suspect)
         IN  [ cnt |-> l.cnt + hit + r.cnt,
               looked |-> l.looked \o <<heap[root].clue>> \o r.looked ]

(***************************************************************************)
(* Bounds of the model and the inputs it draws.                            *)
(***************************************************************************)
\* lines the player may type before stdin ends (every line drawn is
\* shorter than MAX_INPUT, so fgets returns it whole)
MaxInputs == 5

\* calls of inserirPista in the ledger's own specification
MaxOffers == 4

\* calls of inserirNaHash in the index's own specification
MaxHashOps == 3

\* calls of inserirPista that build a ledger handed to the verdict
MaxLedger == 3

\* lines at the exploration prompt, as fgets returns them:
\* "e\n" "E\n" "d\n" "D\n" "s\n" "S\n" "\n" "x\n" " e\n", and "d" cut by
\* the end of stdin
ExploreLines ==
    { <<101, 10>>, <<69, 10>>, <<100, 10>>, <<68, 10>>, <<115, 10>>,
      <<83, 10>>, <<10>>, <<120, 10>>, <<32, 101, 10>>, <<100>> }

\* lines at the accusation prompt: the four suspects, "sra. rosa\n",
\* "Mordomo\n", "\n", and "Sr. Preto" cut by the end of stdin
AccuseLines ==
    { Append(SraRosa, 10), Append(SrPreto, 10), Append(SrVerde, 10),
      Append(DrAzul, 10),
      <<115, 114, 97, 46, 32, 114, 111, 115, 97, 10>>,
      <<77, 111, 114, 100, 111, 109, 111, 10>>, <<10>>, SrPreto }

\* clue texts offered to the ledger on its own: "", "A", "a", "Ab", "é",
\* two texts of the game with a common prefix, and NULL
LedgerTexts ==
    { <<>>, <<65>>, <<97>>, <<65, 98>>, <<195, 169>>, PegadaPequena,
      PegadasLamacentas, NULLSTR }

\* keys written to the index on its own: "aR" and "b1" share a bucket, and
\* so do the two texts of the game
HashKeys == { <<97, 82>>, <<98, 49>>, PegadasLamacentas, LivroDeslocado }

HashSuspects == { SraRosa, SrPreto }

\* clue texts and suspects of the ledgers and tables handed to the verdict
VerdictKeys == << PegadasLamacentas, LivroDeslocado, CartaRasgada >>

VerdictSuspects == { SraRosa, SrPreto }

(***************************************************************************)
(* State.                                                                  *)
(***************************************************************************)
VARIABLES
    pc,         \* where the program stands
    rooms,      \* heap of Room nodes
    mansao,     \* main's pointer to the root room
    atual,      \* explorarSalas' cursor
    clueHeap,   \* heap of ClueNode nodes
    collected,  \* main's pointer to the root of the ledger
    table,      \* main's hash table
    eof,        \* stdin's end-of-file indicator
    nread,      \* lines read from stdin so far
    consults,   \* runs of the room-to-clue chain since the cursor last moved
    report,     \* what the last pass of the loop printed about the clue
    lastInput,  \* what the last read at the exploration prompt came to
    visited,    \* the rooms the cursor has been in, in order
    offered,    \* the clue texts handed to inserirPista, in order
    written,    \* the <<pista, suspeito>> handed to inserirNaHash, in order
    listed,     \* the clue texts listarPistas printed
    prompted,   \* whether the accusation prompt was printed
    accused,    \* the accused name as read and trimmed
    count,      \* verificarSuspeitoFinal's count
    outcome,    \* the outcome verificarSuspeitoFinal printed
    lookupLog,  \* the clue texts handed to encontrarSuspeito by the tally
    freed       \* what the teardown freed, in order

roomVars == <<rooms, mansao>>
ledgerVars == <<clueHeap, collected, offered>>
hashVars == <<table, written>>
stdinVars == <<eof, nread>>
exploreVars == <<atual, consults, report, lastInput, visited>>
verdictVars == <<listed, prompted, accused, count, outcome, lookupLog>>
vars == <<pc, roomVars, ledgerVars, hashVars, stdinVars, exploreVars,
          verdictVars, freed>>

NothingRead == eof = FALSE /\ nread = 0

NothingExplored ==
    consults = 0 /\ report = "none" /\ lastInput = "none"

NothingJudged ==
    /\ listed = <<>> /\ prompted = FALSE /\ accused = NULLSTR
    /\ count = 0 /\ outcome = "none" /\ lookupLog = <<>>

NothingFreed ==
    freed = [order |-> <<>>, rooms |-> <<>>, clues |-> <<>>, entries |-> <<>>]

(***************************************************************************)
(* main: the state when explorarSalas reaches its loop.                    *)
(***************************************************************************)
Init ==
    /\ pc = "explore"
    /\ rooms = construirMansao.heap
    /\ mansao = construirMansao.root
    /\ table = popularTabelaHash
    /\ written = Associacoes
    /\ clueHeap = <<>> /\ collected = NULL /\ offered = <<>>
    /\ atual = mansao
    /\ visited = <<mansao>>
    /\ NothingRead /\ NothingExplored /\ NothingJudged /\ NothingFreed

(***************************************************************************)
(* explorarSalas.                                                          *)
(***************************************************************************)
\* one pass of the loop from its test to the prompt: the room's clue is
\* named and handed to adicionarPista (clue and r are bound to the one
\* value each has, computed once)
ExploreEnter ==
    /\ pc = "explore"
    /\ IF atual = NULL
       THEN /\ pc' = "verdict"
            /\ UNCHANGED <<ledgerVars, exploreVars>>
       ELSE \E clue \in {getClueForRoom(rooms[atual].name)} :
              \E r \in {adicionarPista(clueHeap, collected, clue)} :
                /\ clueHeap' = r.heap
                /\ collected' = r.root
                /\ offered' = IF clue # NULLSTR THEN Append(offered, clue)
                              ELSE offered
                /\ report' = IF r.printed THEN "found" ELSE "noclue"
                /\ consults' = consults + 1
                /\ pc' = "prompt"
                /\ UNCHANGED <<atual, lastInput, visited>>
    /\ UNCHANGED <<roomVars, hashVars, stdinVars, verdictVars, freed>>

\* Faulty variant of ExploreEOF: the end of stdin at the exploration prompt
\* skips the verdict
ExploreEOF_exits ==
    /\ pc = "prompt"
    /\ eof' = TRUE
    /\ lastInput' = "eof"
    /\ pc' = "judged"
    /\ UNCHANGED <<roomVars, ledgerVars, hashVars, nread, atual, consults,
                   report, visited, verdictVars, freed>>

\* fgets returns NULL at the exploration prompt
ExploreEOF ==
    /\ pc = "prompt"
    /\ eof' = TRUE
    /\ lastInput' = "eof"
    /\ pc' = "verdict"
    /\ UNCHANGED <<roomVars, ledgerVars, hashVars, nread, atual, consults,
                   report, visited, verdictVars, freed>>

\* Faulty variant of ExploreLine: an empty line leaves the loop (break for
\* continue)
ExploreLine_emptybreaks(line) ==
    /\ pc = "prompt"
    /\ ~eof /\ nread < MaxInputs
    /\ nread' = nread + 1
    /\ eof' = (line[Len(line)] # 10)
    /\ LET input == trim_newline(line)
           c == input[1]
           to == IF c \in {101, 69} THEN rooms[atual].left
                 ELSE rooms[atual].right
       IN  IF strlen(input) = 0
           THEN /\ lastInput' = "empty"
                /\ pc' = "verdict"
                /\ UNCHANGED <<atual, consults, visited>>
           ELSE IF c \in {101, 69, 100, 68}
           THEN IF to # NULL
                THEN /\ atual' = to
                     /\ visited' = Append(visited, to)
                     /\ consults' = 0
                     /\ lastInput' = "moved"
                     /\ pc' = "explore"
                ELSE /\ lastInput' = "deadend"
                     /\ pc' = "explore"
                     /\ UNCHANGED <<atual, consults, visited>>
           ELSE IF c \in {115, 83}
           THEN /\ lastInput' = "stop"
                /\ pc' = "verdict"
                /\ UNCHANGED <<atual, consults, visited>>
           ELSE /\ lastInput' = "invalid"
                /\ pc' = "explore"
                /\ UNCHANGED <<atual, consults, visited>>
    /\ UNCHANGED <<roomVars, ledgerVars, hashVars, report, verdictVars, freed>>

\* fgets returns a line at the exploration prompt
ExploreLine(line) ==
    /\ pc = "prompt"
    /\ ~eof /\ nread < MaxInputs
    /\ nread' = nread + 1
    /\ eof' = (line[Len(line)] # 10)
    /\ LET input == trim_newline(line)
           c == input[1]
           to == IF c \in {101, 69} THEN rooms[atual].left
                 ELSE rooms[atual].right
       IN  IF strlen(input) = 0
           THEN /\ lastInput' = "empty"
                /\ pc' = "explore"
                /\ UNCHANGED <<atual, consults, visited>>
           ELSE IF c \in {101, 69, 100, 68}
           THEN IF to # NULL
                THEN /\ atual' = to
                     /\ visited' = Append(visited, to)
                     /\ consults' = 0
                     /\ lastInput' = "moved"
                     /\ pc' = "explore"
                ELSE /\ lastInput' = "deadend"
                     /\ pc' = "explore"
                     /\ UNCHANGED <<atual, consults, visited>>
           ELSE IF c \in {115, 83}
           THEN /\ lastInput' = "stop"
                /\ pc' = "verdict"
                /\ UNCHANGED <<atual, consults, visited>>
           ELSE /\ lastInput' = "invalid"
                /\ pc' = "explore"
                /\ UNCHANGED <<atual, consults, visited>>
    /\ UNCHANGED <<roomVars, ledgerVars, hashVars, report, verdictVars, freed>>

(***************************************************************************)
(* verificarSuspeitoFinal.                                                 *)
(***************************************************************************)
\* Faulty variant of VerdictStart: the test for the empty ledger is missing
VerdictStart_noguard ==
    /\ pc = "verdict"
    /\ listed' = listarPistas(clueHeap, collected)
    /\ prompted' = TRUE
    /\ pc' = "accuse"
    /\ UNCHANGED outcome
    /\ UNCHANGED <<roomVars, ledgerVars, hashVars, stdinVars, exploreVars,
                   accused, count, lookupLog, freed>>

\* from the call to the accusation prompt, or to the early return
VerdictStart ==
    /\ pc = "verdict"
    /\ IF collected = NULL
       THEN /\ outcome' = "NO_EVIDENCE"
            /\ pc' = "judged"
            /\ UNCHANGED <<listed, prompted>>
       ELSE /\ listed' = listarPistas(clueHeap, collected)
            /\ prompted' = TRUE
            /\ pc' = "accuse"
            /\ UNCHANGED outcome
    /\ UNCHANGED <<roomVars, ledgerVars, hashVars, stdinVars, exploreVars,
                   accused, count, lookupLog, freed>>

\* Faulty variant of AccuseEOF: the early return drops the ledger
AccuseEOF_clears ==
    /\ pc = "accuse"
    /\ eof' = TRUE
    /\ collected' = NULL
    /\ pc' = "judged"
    /\ UNCHANGED <<roomVars, clueHeap, offered, hashVars, nread, exploreVars,
                   verdictVars, freed>>

\* fgets returns NULL at the accusation prompt
AccuseEOF ==
    /\ pc = "accuse"
    /\ eof' = TRUE
    /\ pc' = "judged"
    /\ UNCHANGED <<roomVars, ledgerVars, hashVars, nread, exploreVars,
                   verdictVars, freed>>

\* fgets returns a line at the accusation prompt
AccuseLine(line) ==
    /\ pc = "accuse"
    /\ ~eof /\ nread < MaxInputs
    /\ nread' = nread + 1
    /\ eof' = (line[Len(line)] # 10)
    /\ LET name == trim_newline(line)
           r == count_clues_for_suspect(clueHeap, collected, table, name)
       IN  /\ accused' = name
           /\ IF strlen(name) = 0
              THEN /\ outcome' = "NO_SUSPECT"
                   /\ UNCHANGED <<count, lookupLog>>
              ELSE /\ count' = r.cnt
                   /\ lookupLog' = r.looked
                   /\ outcome' = IF r.cnt >= 2 THEN "SUPPORTED" ELSE "WEAK"
    /\ pc' = "judged"
    /\ UNCHANGED <<roomVars, ledgerVars, hashVars, exploreVars, listed,
                   prompted, freed>>

(***************************************************************************)
(* The teardown of main.                                                   *)
(***************************************************************************)
FreeRooms ==
    /\ pc = "judged"
    /\ freed' = [freed EXCEPT !.order = Append(@, "rooms"),
                              !.rooms = @ \o freeRooms(rooms, mansao)]
    /\ pc' = "freed_rooms"
    /\ UNCHANGED <<roomVars, ledgerVars, hashVars, stdinVars, exploreVars,
                   verdictVars>>

FreeClues ==
    /\ pc = "freed_rooms"
    /\ freed' = [freed EXCEPT !.order = Append(@, "clues"),
                              !.clues = @ \o freeClues(clueHeap, collected)]
    /\ pc' = "freed_clues"
    /\ UNCHANGED <<roomVars, ledgerVars, hashVars, stdinVars, exploreVars,
                   verdictVars>>

\* freeHash, then main prints its farewell and returns 0
FreeHash ==
    /\ pc = "freed_clues"
    /\ freed' = [freed EXCEPT !.order = Append(@, "hash"),
                              !.entries = @ \o freeHash(table)]
    /\ table' = EmptyTable
    /\ pc' = "done"
    /\ UNCHANGED <<roomVars, ledgerVars, written, stdinVars, exploreVars,
                   verdictVars>>

Next ==
    \/ ExploreEnter
    \/ ExploreEOF
    \/ \E line \in ExploreLines : ExploreLine(line)
    \/ VerdictStart
    \/ AccuseEOF
    \/ \E line \in AccuseLines : AccuseLine(line)
    \/ FreeRooms
    \/ FreeClues
    \/ FreeHash

Spec == Init /\ [][Next]_vars

\* main is a sequential program: while it has not returned it takes its
\* next step, and a call of fgets returns, with a line or with NULL
SpecFair == Spec /\ WF_vars(Next)

(***************************************************************************)
(* The ledger on its own: inserirPista called with any texts, in any       *)
(* order, from the empty ledger.                                           *)
(***************************************************************************)
InitLedger ==
    /\ pc = "ledger"
    /\ rooms = construirMansao.heap
    /\ mansao = construirMansao.root
    /\ table = EmptyTable
    /\ written = <<>>
    /\ clueHeap = <<>> /\ collected = NULL /\ offered = <<>>
    /\ atual = NULL
    /\ visited = <<>>
    /\ NothingRead /\ NothingExplored /\ NothingJudged /\ NothingFreed

\* collected = inserirPista(collected, clue)
OfferClue(clue) ==
    /\ pc = "ledger"
    /\ Len(offered) < MaxOffers
    /\ LET r == inserirPista(clueHeap, collected, clue)
       IN  /\ clueHeap' = r.heap
           /\ collected' = r.root
    /\ offered' = Append(offered, clue)
    /\ UNCHANGED <<pc, roomVars, hashVars, stdinVars, exploreVars,
                   verdictVars, freed>>

NextLedger == \E clue \in LedgerTexts : OfferClue(clue)

SpecLedger == InitLedger /\ [][NextLedger]_vars

(***************************************************************************)
(* The index on its own: inserirNaHash called with any keys and suspects,  *)
(* in any order, from the table with every bucket NULL.                    *)
(***************************************************************************)
InitHash ==
    /\ pc = "index"
    /\ rooms = construirMansao.heap
    /\ mansao = construirMansao.root
    /\ table = EmptyTable
    /\ written = <<>>
    /\ clueHeap = <<>> /\ collected = NULL /\ offered = <<>>
    /\ atual = NULL
    /\ visited = <<>>
    /\ NothingRead /\ NothingExplored /\ NothingJudged /\ NothingFreed

\* inserirNaHash(table, pista, suspeito)
HashInsert(pista, suspeito) ==
    /\ pc = "index"
    /\ Len(written) < MaxHashOps
    /\ table' = inserirNaHash(table, pista, suspeito)
    /\ written' = Append(written, <<pista, suspeito>>)
    /\ UNCHANGED <<pc, roomVars, ledgerVars, stdinVars, exploreVars,
                   verdictVars, freed>>

NextHash ==
    \E pista \in HashKeys \cup {NULLSTR} :
        \E suspeito \in HashSuspects \cup {NULLSTR} :
            HashInsert(pista, suspeito)

SpecHash == InitHash /\ [][NextHash]_vars

(***************************************************************************)
(* verificarSuspeitoFinal on its own: called with any ledger built by      *)
(* inserirPista (the empty one too) and any table built by inserirNaHash.  *)
(***************************************************************************)
\* the sequences over S of length at most n
RECURSIVE SeqsUpTo(_, _)
SeqsUpTo(S, n) ==
    IF n = 0 THEN {<<>>}
    ELSE LET shorter == SeqsUpTo(S, n - 1)
         IN  shorter \cup {Append(q, x) : q \in shorter, x \in S}

\* the ledgers: a heap of ClueNode nodes and the pointer to the root
Ledgers ==
    [heap : Seq([clue : Seq(Nat), left : Nat, right : Nat]), root : Nat]

\* inserirPista called for texts[i], texts[i+1], ... in turn, from the
\* ledger [heap, root]
InserirPistas[ledger \in Ledgers, texts \in Seq(Seq(Int)), i \in Nat] ==
    IF i > Len(texts) THEN ledger
    ELSE InserirPistas[inserirPista(ledger.heap, ledger.root, texts[i]),
                       texts, i + 1]

InitVerdict ==
    /\ pc = "verdict"
    /\ rooms = construirMansao.heap
    /\ mansao = construirMansao.root
    /\ \E texts \in SeqsUpTo({VerdictKeys[i] : i \in DOMAIN VerdictKeys},
                             MaxLedger) :
          LET r == InserirPistas[[heap |-> <<>>, root |-> NULL], texts, 1]
          IN  clueHeap = r.heap /\ collected = r.root /\ offered = texts
    /\ \E f \in [DOMAIN VerdictKeys -> VerdictSuspects \cup {NULLSTR}] :
          /\ written = [i \in DOMAIN VerdictKeys |-> <<VerdictKeys[i], f[i]>>]
          /\ table = InserirTodas[EmptyTable, written, 1, Len(written)]
    /\ atual = NULL
    /\ visited = <<>>
    /\ NothingRead /\ NothingExplored /\ NothingJudged /\ NothingFreed

NextVerdict ==
    \/ VerdictStart
    \/ AccuseEOF
    \/ \E line \in AccuseLines : AccuseLine(line)

SpecVerdict == InitVerdict /\ [][NextVerdict]_vars

(***************************************************************************)
(* Vocabulary of the properties.                                           *)
(***************************************************************************)
\* the clue texts held by the nodes of a heap
TextsOf(heap) == {heap[a].clue : a \in 1..Len(heap)}

\* a is before b in the lexicographic order of byte strings (bytes as
\* unsigned values, a proper prefix before its extensions)
LexLess(a, b) ==
    \E k \in 1..Len(b) :
        /\ \A j \in 1..(k - 1) : j <= Len(a) /\ a[j] = b[j]
        /\ k > Len(a) \/ a[k] < b[k]

\* the clue texts of the subtree rooted at n
RECURSIVE SubtreeTexts(_, _)
SubtreeTexts(heap, n) ==
    IF n = NULL THEN {}
    ELSE {heap[n].clue} \cup SubtreeTexts(heap, heap[n].left)
                        \cup SubtreeTexts(heap, heap[n].right)

\* the calls of inserirNaHash so far that had a key and a suspect
Writes(k) ==
    {i \in 1..Len(written) : written[i][1] = k /\ written[i][2] # NULLSTR}

\* the suspect of the most recent such call for key k
LastWritten(k) ==
    written[CHOOSE i \in Writes(k) : \A j \in Writes(k) : j <= i][2]

\* the entries of the table, over all buckets, whose key is k: each one
\* named by its bucket and its place in the chain
EntriesFor(tab, k) ==
    UNION { { <<b, i>> : i \in {j \in 1..Len(tab[b]) : tab[b][j].key = k} } :
            b \in Buckets }

(***************************************************************************)
(* C1.  From the empty ledger, whatever texts inserirPista is called       *)
(* with: no two nodes of the ledger carry the same text; a call with a     *)
(* text the ledger holds leaves the ledger as it was (same nodes, same     *)
(* links, same root); and no call adds more than one node.                 *)
(***************************************************************************)
C1_InsertIdempotent ==
    [][ /\ \A a, b \in 1..Len(clueHeap') :
              a # b => clueHeap'[a].clue # clueHeap'[b].clue
        /\ Len(clueHeap') <= Len(clueHeap) + 1
        /\ offered'[Len(offered')] \in TextsOf(clueHeap)
              => clueHeap' = clueHeap /\ collected' = collected
      ]_vars

\* a text was offered a second time to a ledger of at least two nodes
C1_Witness ==
    /\ pc = "ledger"
    /\ Len(clueHeap) >= 2
    /\ \E i, j \in 1..Len(offered) :
          i < j /\ offered[i] = offered[j] /\ offered[i] # NULLSTR

(***************************************************************************)
(* C2.  After any calls of inserirPista every node's left subtree holds    *)
(* only texts before the node's own and its right subtree only texts       *)
(* after it, and listarPistas prints every text of the ledger, in          *)
(* strictly ascending lexicographic order.                                 *)
(***************************************************************************)
C2_BstOrdered ==
    /\ \A a \in 1..Len(clueHeap) :
          /\ \A t \in SubtreeTexts(clueHeap, clueHeap[a].left) :
                LexLess(t, clueHeap[a].clue)
          /\ \A t \in SubtreeTexts(clueHeap, clueHeap[a].right) :
                LexLess(clueHeap[a].clue, t)
    /\ LET out == listarPistas(clueHeap, collected)
       IN  /\ Len(out) = Len(clueHeap)
           /\ \A i \in 1..(Len(out) - 1) : LexLess(out[i], out[i + 1])

\* a ledger of four nodes, among them a text with bytes above 127, the
\* empty text and two texts that share a prefix, the root with two children
C2_Witness ==
    /\ pc = "ledger"
    /\ Len(clueHeap) = 4
    /\ {<<195, 169>>, <<>>, PegadaPequena, PegadasLamacentas}
          \subseteq TextsOf(clueHeap)
    /\ clueHeap[collected].left # NULL /\ clueHeap[collected].right # NULL

C4_LastWriteWins ==
    \A k \in HashKeys :
        Writes(k) # {}
        => /\ encontrarSuspeito(table, k) = LastWritten(k)
           /\ Cardinality(EntriesFor(table, k)) = 1

\* a key was written twice, with two different suspects
C4_Witness ==
    /\ pc = "index"
    /\ \E k \in HashKeys :
          \E i, j \in Writes(k) : i < j /\ written[i][2] # written[j][2]

(***************************************************************************)
(* C5.  encontrarSuspeito gives NULL for a key that was never written,     *)
(* whatever shares its bucket, and a call of inserirNaHash changes what    *)
(* encontrarSuspeito gives for no key but its own.                         *)
(***************************************************************************)
C5_BucketOnlySelects ==
    [][ \A k \in HashKeys :
          /\ Writes(k)' = {} => encontrarSuspeito(table', k) = NULLSTR
          /\ k # written'[Len(written')][1]
                => encontrarSuspeito(table', k) = encontrarSuspeito(table, k)
      ]_vars

\* two written keys share a chain, and a key never written hashes to a
\* bucket that is not empty
C5_Witness ==
    /\ pc = "index"
    /\ \E b \in Buckets : Len(table[b]) >= 2
    /\ \E k \in HashKeys : Writes(k) = {} /\ table[hash_func(k)] # <<>>

\* every element of S occurs exactly once in the sequence q, and nothing
\* else does
OnceEach(q, S) ==
    /\ Len(q) = Cardinality(S)
    /\ \A x \in S : \E i \in 1..Len(q) : q[i] = x

(***************************************************************************)
(* C6.  Between the cursor's arrival in a room and its departure (or the   *)
(* end of the exploration) the room's clue is named and handed to the      *)
(* ledger once, whatever the player types in between.                      *)
(***************************************************************************)
C6_ConsultedOncePerVisit ==
    /\ consults <= 1
    /\ pc = "prompt" => consults = 1

(***************************************************************************)
(* C7.  A pass of the exploration loop reports the discovery of a clue     *)
(* only when the room has a clue that the ledger does not hold yet;        *)
(* otherwise it reports that the room has no clue.                         *)
(***************************************************************************)
C7_DiscoveryOnlyWhenNew ==
    [][ (pc = "explore" /\ pc' = "prompt")
        => LET clue == getClueForRoom(rooms[atual].name)
           IN  IF clue # NULLSTR /\ clue \notin TextsOf(clueHeap)
               THEN report' = "found"
               ELSE report' = "noclue"
      ]_vars

(***************************************************************************)
(* C8.  A line at the exploration prompt that asks for a missing child,    *)
(* is not recognised or is empty changes neither the cursor nor the        *)
(* ledger, and the loop comes back to the prompt in the same room with     *)
(* the same ledger.                                                        *)
(***************************************************************************)
C8_NoMoveNoChange ==
    [][ /\ (pc = "prompt" /\ pc' # "prompt"
               /\ lastInput' \in {"deadend", "invalid", "empty"})
           => /\ pc' = "explore"
              /\ atual' = atual
              /\ clueHeap' = clueHeap /\ collected' = collected
        /\ (pc = "explore" /\ pc' # "explore"
               /\ lastInput \in {"deadend", "invalid", "empty"})
           => /\ pc' = "prompt"
              /\ atual' = atual
              /\ clueHeap' = clueHeap /\ collected' = collected
      ]_vars

\* back at the prompt of a room below the entrance after a dead end there
C8_Witness ==
    /\ pc = "prompt"
    /\ lastInput = "deadend"
    /\ atual # mansao
    /\ consults >= 2
    /\ Len(clueHeap) >= 2

(***************************************************************************)
(* C9.  Called with an empty ledger, verificarSuspeitoFinal reports        *)
(* NO_EVIDENCE and returns: it lists nothing, prints no accusation         *)
(* prompt, reads no line, looks nothing up in the index and gives neither  *)
(* SUPPORTED nor WEAK; and NO_EVIDENCE is reported for no other ledger.    *)
(***************************************************************************)
C9_EmptyLedgerNoEvidence ==
    /\ (collected = NULL /\ pc \in {"accuse", "judged"})
       => /\ pc = "judged"
          /\ outcome = "NO_EVIDENCE"
          /\ ~prompted /\ listed = <<>>
          /\ nread = 0 /\ ~eof /\ accused = NULLSTR
          /\ lookupLog = <<>> /\ count = 0
    /\ outcome = "NO_EVIDENCE" => collected = NULL

\* the verdict returned for an empty ledger and an index that has entries
C9_Witness ==
    /\ pc = "judged"
    /\ collected = NULL
    /\ outcome = "NO_EVIDENCE"
    /\ \E k \in DOMAIN VerdictKeys :
          encontrarSuspeito(table, VerdictKeys[k]) # NULLSTR

(***************************************************************************)
(* C10.  As claimed: when main returns, every structure has been torn      *)
(* down once, the ledger first, then the room tree, then the index.        *)
(***************************************************************************)
C10_LedgerFreedFirst ==
    pc = "done" => freed.order = <<"clues", "rooms", "hash">>

(***************************************************************************)
(* C10, amended.  When main returns, on whatever path through the verdict, *)
(* every structure has been torn down once, the room tree first, then the  *)
(* ledger, then the index: every room, every ledger node and every entry   *)
(* of the index has been freed exactly once.  Nothing is freed before      *)
(* verificarSuspeitoFinal has returned.                                    *)
(***************************************************************************)
C10_TeardownOnceInOrder ==
    /\ pc = "done"
       => /\ freed.order = <<"rooms", "clues", "hash">>
          /\ OnceEach(freed.rooms, 1..Len(rooms))
          /\ OnceEach(freed.clues, 1..Len(clueHeap))
          /\ OnceEach(freed.entries,
                      {written[i][1] : i \in 1..Len(written)})
          /\ table = EmptyTable
    /\ pc \in {"explore", "prompt", "verdict", "accuse", "judged"}
       => freed.order = <<>> /\ freed.rooms = <<>> /\ freed.clues = <<>>
             /\ freed.entries = <<>>
    /\ pc = "freed_rooms" => freed.order = <<"rooms">>
    /\ pc = "freed_clues" => freed.order = <<"rooms", "clues">>

\* main has returned after the accusation prompt met the end of stdin,
\* with a ledger of several nodes
C10_Witness ==
    /\ pc = "done"
    /\ prompted /\ outcome = "none"
    /\ Len(clueHeap) >= 3
    /\ \E a \in 1..Len(clueHeap) : clueHeap[a].right # NULL

\* the positions of main inside the loop of explorarSalas
Exploring == {"explore", "prompt"}

(***************************************************************************)
(* C11.  The exploration ends only at its prompt, on a stop choice or on   *)
(* the end of stdin, and then the verdict starts; a line that asks for a   *)
(* missing child, is not recognised or is empty goes back to the loop.     *)
(* Once the exploration has ended it never resumes, the cursor never       *)
(* moves and the ledger gets no node: the verdict has the ledger as the    *)
(* exploration left it.                                                    *)
(***************************************************************************)
C11_ExplorationEndsOnStopOrEof ==
    [][ /\ (pc \in Exploring /\ pc' \notin Exploring)
           => /\ pc = "prompt" /\ pc' = "verdict"
              /\ lastInput' \in {"stop", "eof"}
        /\ (pc = "prompt" /\ lastInput' \in {"deadend", "invalid", "empty"})
           => pc' = "explore"
        /\ pc \notin Exploring
           => /\ pc' \notin Exploring
              /\ atual' = atual /\ visited' = visited
              /\ clueHeap' = clueHeap /\ collected' = collected
              /\ offered' = offered
      ]_vars

\* main has returned from a session that went down a room, read a line
\* there that moved nothing, and was ended by a stop choice
C11_Witness ==
    /\ pc = "done"
    /\ lastInput = "stop"
    /\ consults >= 2
    /\ Len(visited) >= 2

(***************************************************************************)
(* C12.  The end of stdin at the exploration prompt does to the session    *)
(* what a stop choice does: the loop is left for the verdict with the      *)
(* cursor, the ledger, the rooms and the index as they were, and the       *)
(* verdict then lists the ledger and prompts.  The end of stdin at the     *)
(* accusation prompt does what an empty name does: the verdict returns     *)
(* with no lookup, no count and neither SUPPORTED nor WEAK.  Once stdin    *)
(* has ended main goes on through the teardown and returns.                *)
(***************************************************************************)
C12_EofIsGraceful ==
    /\ [][ /\ (pc = "prompt"
                /\ (lastInput' = "stop" \/ (nread' = nread /\ eof')))
              => /\ pc' = "verdict"
                 /\ UNCHANGED <<atual, visited, ledgerVars, roomVars,
                                hashVars, verdictVars, freed>>
           /\ (pc = "accuse"
                /\ (strlen(accused') = 0 \/ (nread' = nread /\ eof')))
              => /\ pc' = "judged"
                 /\ count' = 0 /\ lookupLog' = <<>>
                 /\ outcome' \notin {"SUPPORTED", "WEAK"}
                 /\ UNCHANGED <<exploreVars, ledgerVars, roomVars,
                                hashVars, freed>>
         ]_vars
    /\ (lastInput = "eof") ~> prompted
    /\ eof ~> (pc = "done" /\ freed.order = <<"rooms", "clues", "hash">>)

\* main has returned from a session in which stdin ended at the
\* exploration prompt of a room below the entrance: the verdict listed the
\* ledger, prompted, met the end of stdin too and gave no outcome
C12_Witness ==
    /\ pc = "done"
    /\ lastInput = "eof"
    /\ Len(visited) >= 2
    /\ prompted /\ Len(listed) >= 2
    /\ outcome = "none" /\ count = 0

\* the clue texts of the game: the keys popularTabelaHash writes
ClueTexts == {Associacoes[i][1] : i \in 1..Len(Associacoes)}

(***************************************************************************)
(* C13.  From the start of the exploration to the return of the verdict    *)
(* the room tree is the one construirMansao built and the index the one    *)
(* popularTabelaHash built: no step changes a room, a link, an entry or    *)
(* what encontrarSuspeito gives for a clue text.  No step of the verdict   *)
(* changes the ledger: its nodes, its root and its set of texts are after  *)
(* the step what they were before.                                         *)
(***************************************************************************)
C13_InputsReadOnly ==
    [][ /\ pc \in Exploring \cup {"verdict", "accuse"}
           => /\ rooms = construirMansao.heap /\ mansao = construirMansao.root
              /\ table = popularTabelaHash
              /\ rooms' = rooms /\ mansao' = mansao
              /\ table' = table
              /\ \A k \in ClueTexts :
                    encontrarSuspeito(table', k) = encontrarSuspeito(table, k)
        /\ pc \in {"verdict", "accuse"}
           => /\ clueHeap' = clueHeap /\ collected' = collected
              /\ TextsOf(clueHeap') = TextsOf(clueHeap)
              /\ listarPistas(clueHeap', collected')
                    = listarPistas(clueHeap, collected)
      ]_vars

\* the verdict has returned after a tally over a ledger of three clues
\* that looked every one of them up in the index
C13_Witness ==
    /\ pc = "judged"
    /\ outcome \in {"SUPPORTED", "WEAK"}
    /\ Len(clueHeap) = 3
    /\ Len(lookupLog) = 3

\* the number of links from room from down to room r; -1 when r is not in
\* the tree below from
RECURSIVE RoomDepth(_, _, _)
RoomDepth(heap, from, r) ==
    IF from = NULL THEN -1
    ELSE IF from = r THEN 0
    ELSE LET l == RoomDepth(heap, heap[from].left, r)
             d == RoomDepth(heap, heap[from].right, r)
         IN  IF l >= 0 THEN l + 1 ELSE IF d >= 0 THEN d + 1 ELSE -1

\* the rooms a sequence of rooms names
RoomsIn(q) == {q[i] : i \in 1..Len(q)}

(***************************************************************************)
(* C14.  The cursor of explorarSalas is never NULL and always a room of    *)
(* the tree construirMansao built.  It changes only at the prompt, to the  *)
(* left or the right child of the room it is in, a room it has not been    *)
(* in: its depth grows by one with every move and never falls, and a       *)
(* session has at most 3 moves.                                            *)
(***************************************************************************)
C14_CursorDescends ==
    [][ /\ atual # NULL /\ atual' # NULL
        /\ RoomDepth(rooms, mansao, atual) >= 0
        /\ RoomDepth(rooms', mansao', atual') >= 0
        /\ atual' # atual
           => /\ pc = "prompt"
              /\ atual' \in {rooms[atual].left, rooms[atual].right}
              /\ atual' \notin RoomsIn(visited)
              /\ RoomDepth(rooms, mansao, atual')
                    = RoomDepth(rooms, mansao, atual) + 1
        /\ RoomDepth(rooms, mansao, atual')
              >= RoomDepth(rooms, mansao, atual)
        /\ visited' # visited <=> atual' # atual
        /\ visited' # visited => visited' = Append(visited, atual')
        /\ Len(visited') - 1 <= 3
      ]_vars

\* three moves down to Porão, and then a line that asks for a child Porão
\* does not have
C14_Witness ==
    /\ pc = "prompt"
    /\ Len(visited) = 4
    /\ rooms[atual].name = Porao
    /\ lastInput = "deadend"

\* the rooms on the path from the root down to room r, r included
PathTo(heap, root, r) ==
    {x \in 1..Len(heap) :
        RoomDepth(heap, root, x) >= 0 /\ RoomDepth(heap, x, r) >= 0}

(***************************************************************************)
(* C15.  At every prompt of the exploration the texts of the ledger are    *)
(* the clues of the rooms on the path from Entrada to the room the cursor  *)
(* is in, each once; the ledger has one node more than the cursor's depth, *)
(* between 1 and 4 nodes.                                                  *)
(***************************************************************************)
C15_LedgerIsPathClues ==
    pc = "prompt"
    => /\ TextsOf(clueHeap)
             = {getClueForRoom(rooms[x].name) : x \in PathTo(rooms, mansao, atual)}
       /\ Cardinality(TextsOf(clueHeap)) = Len(clueHeap)
       /\ Len(clueHeap) = RoomDepth(rooms, mansao, atual) + 1
       /\ Len(clueHeap) \in 1..4
       /\ Len(listarPistas(clueHeap, collected)) = Len(clueHeap)

\* at the prompt of a room at depth 3 for the second time at least, after
\* a line that moved nothing: the ledger has four nodes
C15_Witness ==
    /\ pc = "prompt"
    /\ RoomDepth(rooms, mansao, atual) = 3
    /\ consults >= 2
    /\ Len(clueHeap) = 4

(***************************************************************************)
(* C16.  In a run of main the ledger holds "Pegadas lamacentas" from the   *)
(* first prompt of the exploration on, whatever stdin holds, so            *)
(* verificarSuspeitoFinal is never called with an empty ledger: it never   *)
(* reports NO_EVIDENCE and always lists the ledger and prompts.            *)
(***************************************************************************)
C16_VerdictHasEvidence ==
    /\ pc # "explore"
       => /\ collected # NULL
          /\ PegadasLamacentas \in TextsOf(clueHeap)
          /\ PegadasLamacentas \in SubtreeTexts(clueHeap, collected)
    /\ pc = "explore" /\ collected = NULL => nread = 0 /\ atual = mansao
    /\ outcome # "NO_EVIDENCE"
    /\ pc \notin Exploring \cup {"verdict"}
       => prompted /\ listed # <<>>

\* stdin was empty from the start: the verdict has returned, having listed
\* the one clue of Entrada
C16_Witness ==
    /\ pc = "judged"
    /\ nread = 0 /\ eof
    /\ lastInput = "eof"
    /\ listed = <<PegadasLamacentas>>
    /\ outcome = "none"

\* the suspect names popularTabelaHash writes
SuspectNames == {Associacoes[i][2] : i \in 1..Len(Associacoes)}

\* the sum, over the names of a set, of what count_clues_for_suspect gives
RECURSIVE TallyAll(_, _, _, _)
TallyAll(heap, root, tab, names) ==
    IF names = {} THEN 0
    ELSE LET s == CHOOSE x \in names : TRUE
         IN  count_clues_for_suspect(heap, root, tab, s).cnt
                + TallyAll(heap, root, tab, names \ {s})

(***************************************************************************)
(* C17.  Every room of the mansion has a clue and every such clue has an   *)
(* entry in the index popularTabelaHash builds.  So, until freeHash, the   *)
(* index gives a suspect for every text of the ledger, the counts of the   *)
(* four suspect names add up to the number of nodes of the ledger, and a   *)
(* tally looks every text of the ledger up, once.                          *)
(***************************************************************************)
C17_EveryClueIndexed ==
    /\ \A x \in 1..Len(rooms) :
          /\ getClueForRoom(rooms[x].name) # NULLSTR
          /\ encontrarSuspeito(popularTabelaHash,
                               getClueForRoom(rooms[x].name)) \in SuspectNames
    /\ pc # "done"
       => /\ \A a \in 1..Len(clueHeap) :
                encontrarSuspeito(table, clueHeap[a].clue) \in SuspectNames
          /\ TallyAll(clueHeap, collected, table, SuspectNames)
                = Len(clueHeap)
    /\ outcome \in {"SUPPORTED", "WEAK"}
       => lookupLog = listarPistas(clueHeap, collected)

\* a tally has run over the four clues of the path to Sótão, two of which
\* share a bucket of the index
C17_Witness ==
    /\ pc = "judged"
    /\ outcome \in {"SUPPORTED", "WEAK"}
    /\ Len(clueHeap) = 4
    /\ {PegadasLamacentas, LivroDeslocado} \subseteq TextsOf(clueHeap)
    /\ hash_func(PegadasLamacentas) = hash_func(LivroDeslocado)

\* the cursor has been in the room of that name
Reached(name) == \E i \in 1..Len(visited) : rooms[visited[i]].name = name

(***************************************************************************)
(* C18.  In a run of main no name has more than 2 clues of the ledger      *)
(* pointing at it.  Whenever a name is accused the outcome is SUPPORTED    *)
(* or WEAK; it is SUPPORTED only for "Sra. Rosa" after the cursor has      *)
(* been in Biblioteca or Porão, and for "Sr. Verde" after it has been in   *)
(* Sótão; for "Sr. Preto" and "Dr. Azul", and for any name once the        *)
(* cursor has been in Cozinha, it is WEAK.                                 *)
(***************************************************************************)
C18_SupportedOnlyOnTwoPaths ==
    /\ count <= 2
    /\ pc # "done"
       => \A s \in SuspectNames :
              count_clues_for_suspect(clueHeap, collected, table, s).cnt <= 2
    /\ (pc = "judged" /\ accused # NULLSTR /\ strlen(accused) > 0)
       => outcome \in {"SUPPORTED", "WEAK"}
    /\ outcome = "SUPPORTED"
       => \/ accused = SraRosa /\ (Reached(Biblioteca) \/ Reached(Porao))
          \/ accused = SrVerde /\ Reached(Sotao)
    /\ (outcome \in {"SUPPORTED", "WEAK"}
           /\ (accused \in {SrPreto, DrAzul} \/ Reached(Cozinha)))
       => outcome = "WEAK"

\* "Sr. Verde" accused after the cursor went down to Sótão: two clues,
\* SUPPORTED
C18_Witness ==
    /\ pc = "judged"
    /\ Reached(Sotao)
    /\ accused = SrVerde
    /\ count = 2
    /\ outcome = "SUPPORTED"

====
